---------------------------- MODULE Spec2Model ----------------------------
(***************************************************************************)
(* Model of the chat backend: the POST /api/chat handler (src/app.py),     *)
(* the Firestore adapter FirebaseService (src/services/                    *)
(* firebase_service.py) and the Assistants-API client LLMService           *)
(* (src/services/llm_service.py).                                          *)
(*                                                                         *)
(* Python's None is the string NoneVal; a Firestore document is a record   *)
(* with an `exists` field; an HTTP response is a record with its status    *)
(* code and the set of keys of its JSON body.                              *)
(***************************************************************************)
EXTENDS Integers, Sequences, FiniteSets, TLC

VARIABLES
    userDocs,      \* users/{id}: the set of user ids that have a profile document
    prefDocs,      \* users/{id}/preferences: the ids that have a preference document
    threadDoc,     \* users/{id}/metadata/openai_thread, per user
    msgStore,      \* users/{id}/messages: the durable log, oldest first
    cache,         \* session_cache: per user, absent or a list of turns
    providerUp,    \* whether the model provider answers calls
    remote,        \* the provider's threads: thread id -> messages, oldest first
    chat,          \* per request slot: the position of chat() and its locals
    fbRet,         \* the last FirebaseService thread call and what it returned
    cacheRet,      \* the last session_cache call made on its own and its result
    llm,           \* the position and locals of a call of LLMService.get_ai_response
    tasks          \* thread-record calls issued together for one user, and
                   \* the order in which they have completed

vars == <<userDocs, prefDocs, threadDoc, msgStore, cache, providerUp, remote,
          chat, fbRet, cacheRet, llm, tasks>>

----------------------------------------------------------------------------
(* Values *)

NoneVal == "<None>"

Users == {"u1", "u2"}

ThreadIds == {"t-1", "t-2", "t-gone"}

\* Slots for concurrently served requests (Flask serves requests in threads).
ReqIds == {"r1", "r2"}

\* The refresh period of the context-injection policy, which is also the
\* truncation window the run is created with.
RefreshPeriod == 50

\* Largest msg_count the model lets a thread document reach.
MaxCount == 51

\* app.py:28
API_KEY == "321"

\* X-API-Key header values a client may send (NoneVal: header missing).
KeyInputs == {NoneVal, "321", "wrong"}

\* user_id / message values of the JSON body (NoneVal: key missing).
UserIdInputs == {NoneVal, "", "u1", "u2"}

MessageInputs == {NoneVal, "", "hello"}

\* limit=10 of the history fetch in chat()
HistoryLimit == 10

Turn(type, message, ts) == [type |-> type, message |-> message, timestamp |-> ts]

RECURSIVE LogOf(_)
\* A stored conversation of n turns, user and ai alternating, timestamps 1..n,
\* the text of turn n being the numeral of n.
LogOf(n) ==
    IF n = 0 THEN << >>
    ELSE Append(LogOf(n - 1),
                Turn(IF n % 2 = 1 THEN "user" ELSE "ai", ToString(n), n))

\* Lengths of the message logs a user may have when the process starts.
StoredLogLengths == {0, 2, HistoryLimit + 1}

NoDoc == [exists |-> FALSE, thread_id |-> NoneVal, msg_count |-> 0]

ThreadRecord(t, c) == [exists |-> TRUE, thread_id |-> t, msg_count |-> c]

\* Python truthiness of an optional string: None and "" are falsy.
Falsy(x) == x = NoneVal \/ x = ""

\* Python's None as a returned value; a returned dict is a record of kind "dict".
PyNone == [kind |-> "None"]

----------------------------------------------------------------------------
(* FirebaseService: each method as a function of the document it touches.  *)
(* `ok` is whether the Firestore call goes through; when it does not, the  *)
(* client library raises and the method's except clause runs.              *)

\* get_user: None when the document is absent, and None when the read raises.
get_user(docs, user_id, ok) ==
    IF ~ok THEN PyNone
    ELSE IF user_id \notin docs THEN PyNone
    ELSE [kind |-> "dict", name |-> user_id]

\* get_user_preferences: the first preference document, else None.
get_user_preferences(docs, user_id, ok) ==
    IF ~ok THEN PyNone
    ELSE IF user_id \in docs THEN [kind |-> "dict", owner |-> user_id]
    ELSE PyNone

\* get_thread_data changed to answer a zero-value record for a missing document.
get_thread_data_zero_record(doc, ok) ==
    IF ok /\ doc.exists
    THEN [kind |-> "dict", thread_id |-> doc.thread_id,
          msg_count |-> doc.msg_count]
    ELSE [kind |-> "dict", thread_id |-> NoneVal, msg_count |-> 0]

\* get_thread_data: {thread_id, msg_count} of an existing document, else None.
get_thread_data(doc, ok) ==
    IF ~ok THEN PyNone
    ELSE IF doc.exists
         THEN [kind |-> "dict", thread_id |-> doc.thread_id,
               msg_count |-> doc.msg_count]
         ELSE PyNone

\* save_thread_id changed to merge the new thread_id without writing msg_count.
save_thread_id_keeps_count(doc, thread_id, ok) ==
    IF ok THEN ThreadRecord(thread_id, doc.msg_count) ELSE doc

\* The document save_thread_id leaves: set(..., merge=True) writes thread_id
\* and msg_count 0; a failed write leaves the document as it was.
save_thread_id_doc(doc, thread_id, ok) ==
    IF ok THEN ThreadRecord(thread_id, 0) ELSE doc

\* What save_thread_id returns.
save_thread_id_ret(ok) == ok

\* The document increment_thread_count leaves: update() adds 1 to msg_count of
\* an existing document; on a missing document, or a failed call, it raises
\* and the error is printed and dropped.
increment_thread_count_doc(doc, ok) ==
    IF ok /\ doc.exists
    THEN [doc EXCEPT !.msg_count = doc.msg_count + 1]
    ELSE doc

\* Whether a call caught an exception, and whether its except clause printed
\* it: save_thread_id and increment_thread_count print, get_thread_data's
\* `except Exception: return None` prints nothing.
save_thread_id_raised(ok) == ~ok
save_thread_id_logged(ok) == ~ok
get_thread_data_raised(ok) == ~ok
get_thread_data_logged(ok) == FALSE
increment_thread_count_raised(doc, ok) == ~(ok /\ doc.exists)
increment_thread_count_logged(doc, ok) == ~(ok /\ doc.exists)

\* The query of get_user_messages: order_by timestamp DESCENDING, limit(limit):
\* the newest `limit` documents, newest first.
QueryDescending(log, limit) ==
    LET n == IF Len(log) < limit THEN Len(log) ELSE limit
    IN  [i \in 1..n |-> log[Len(log) - i + 1]]

RECURSIVE InsertByTimestamp(_, _)
\* m placed after the last element of the sorted list s whose timestamp is not
\* greater (list.sort is stable).
InsertByTimestamp(s, m) ==
    IF s = << >> THEN <<m>>
    ELSE IF s[Len(s)].timestamp <= m.timestamp THEN Append(s, m)
    ELSE Append(InsertByTimestamp(SubSeq(s, 1, Len(s) - 1), m), s[Len(s)])

RECURSIVE SortByTimestamp(_)
\* messages.sort(key=timestamp): oldest first.
SortByTimestamp(msgs) ==
    IF msgs = << >> THEN << >>
    ELSE InsertByTimestamp(SortByTimestamp(SubSeq(msgs, 1, Len(msgs) - 1)),
                           msgs[Len(msgs)])

\* get_user_messages with no limit on the query: the whole log.
get_user_messages_no_limit(log, limit, ok) ==
    IF ~ok THEN << >> ELSE log

\* get_user_messages with the query ordered ASCENDING: the oldest `limit` turns.
get_user_messages_oldest(log, limit, ok) ==
    IF ~ok THEN << >>
    ELSE SubSeq(log, 1, IF Len(log) < limit THEN Len(log) ELSE limit)

\* get_user_messages: the last `limit` turns, oldest first; [] when the query
\* raises.
get_user_messages(log, limit, ok) ==
    IF ~ok THEN << >>
    ELSE LET fetched == QueryDescending(log, limit)
         IN  SortByTimestamp(
                 [i \in 1..Len(fetched) |->
                     Turn(fetched[i].type, fetched[i].message,
                          fetched[i].timestamp)])

----------------------------------------------------------------------------
(* services.session_cache: the process-wide history cache.                 *)

NoEntry == [present |-> FALSE, turns |-> << >>]

\* get_history: None on a cold miss, the cached list on a hit.
cache_get_history(c, user_id) ==
    IF c[user_id].present
    THEN [kind |-> "list", turns |-> c[user_id].turns]
    ELSE PyNone

\* update_history: replaces the user's entry wholesale.
cache_update_history(c, user_id, turns) ==
    [c EXCEPT ![user_id] = [present |-> TRUE, turns |-> turns]]

\* The number of turns an entry keeps when a turn is appended to it.
CacheBound == 10

\* The last n elements of a list, the whole list when it is shorter.
LastN(turns, n) ==
    IF Len(turns) <= n THEN turns
    ELSE SubSeq(turns, Len(turns) - n + 1, Len(turns))

\* append_message changed to start an entry for a user who has none.
cache_append_message_creates(c, user_id, turn) ==
    [c EXCEPT ![user_id] =
        [present |-> TRUE, turns |-> LastN(Append(@.turns, turn), CacheBound)]]

\* append_message: nothing for a user with no entry; otherwise the turn goes to
\* the end and the entry is trimmed from the front to CacheBound turns.
cache_append_message(c, user_id, turn) ==
    IF ~c[user_id].present THEN c
    ELSE [c EXCEPT ![user_id].turns = LastN(Append(@, turn), CacheBound)]

NoCacheCall == [op |-> "none"]

\* No thread-record calls have been issued.
NoTasks == [user_id |-> NoneVal, start |-> NoDoc, launched |-> << >>,
            done |-> << >>]

\* No call of get_ai_response has been made.
IdleCall == [pc |-> "idle", thread_id |-> NoneVal, system_prompt |-> NoneVal,
             current_thread_id |-> NoneVal, threadsAtCall |-> {},
             status |-> NoneVal, ret |-> NoneVal, ret_thread_id |-> NoneVal,
             calls |-> 0]

----------------------------------------------------------------------------
(* The call chat() makes into LLMService.                                  *)

\* def get_ai_response(self, user_message, thread_id=None, system_prompt=None)
GetAiResponseParams == {"user_message", "thread_id", "system_prompt"}

\* Parameters of get_ai_response that have no default.
GetAiResponseRequired == {"user_message"}

\* The keyword arguments chat() passes to llm_service.get_ai_response.
ChatCallKeywords == {"system_prompt", "conversation_history", "user_message"}

\* Python's binding of a keyword-only call: a keyword that is no parameter, or
\* a required parameter left out, raises TypeError before the body runs.
CallBinds(keywords, params, required) ==
    keywords \subseteq params /\ required \subseteq keywords

\* Thread ids the provider hands out for threads created while the model runs.
NewThreadIds == {"t-new1", "t-new2"}

\* threads.create(): an id the provider does not use yet.
create_thread(threads) == CHOOSE t \in NewThreadIds : t \notin DOMAIN threads

----------------------------------------------------------------------------
(* chat(): POST /api/chat                                                  *)

\* validate_api_key: the X-API-Key header is present and equals API_KEY.
validate_api_key(header) == ~Falsy(header) /\ header = API_KEY

\* The validation changed to test the fields against None only.
MissingRequiredFields_none_only(user_id, user_message) ==
    user_id = NoneVal \/ user_message = NoneVal

\* `if not user_id or not user_message`
MissingRequiredFields(user_id, user_message) ==
    Falsy(user_id) \/ Falsy(user_message)

\* jsonify({'success': False, 'error': ...}), status
ErrorResponse(status) == [status |-> status, keys |-> {"success", "error"}]

NoResponse == [status |-> 0, keys |-> {}]

IdleRequest ==
    [pc |-> "idle", api_key |-> NoneVal, user_id |-> NoneVal,
     message |-> NoneVal, userFetch |-> "none", preferences |-> "none",
     cacheHit |-> FALSE, messages |-> << >>, effects |-> {},
     llmCalls |-> 0, injected |-> FALSE, llmError |-> NoneVal,
     recordAtStart |-> NoDoc, resp |-> NoResponse]

\* The request arrives with a JSON object as its body: API key check, body
\* fields (a missing key reads as None), input validation.
ChatReceive(r, header, user_id, user_message) ==
    /\ chat[r].pc = "idle"
    /\ LET req == [chat[r] EXCEPT
                      !.api_key = header, !.user_id = user_id,
                      !.message = user_message,
                      \* not read by chat(): the user's thread document as it
                      \* is when the request arrives, kept for the properties
                      !.recordAtStart = IF user_id \in Users
                                        THEN threadDoc[user_id] ELSE NoDoc]
       IN  IF ~validate_api_key(header)
           THEN chat' = [chat EXCEPT ![r] =
                    [req EXCEPT !.pc = "done", !.resp = ErrorResponse(401)]]
           ELSE IF MissingRequiredFields(user_id, user_message)
           THEN chat' = [chat EXCEPT ![r] =
                    [req EXCEPT !.pc = "done", !.resp = ErrorResponse(400)]]
           ELSE chat' = [chat EXCEPT ![r] = [req EXCEPT !.pc = "get_user"]]
    /\ UNCHANGED <<userDocs, prefDocs, threadDoc, msgStore, cache, providerUp,
                   remote, fbRet,
                   cacheRet, llm, tasks>>

\* user_data = firebase_service.get_user(user_id); 404 when it is falsy.
ChatGetUser(r, ok) ==
    /\ chat[r].pc = "get_user"
    /\ LET user_data == get_user(userDocs, chat[r].user_id, ok)
           req == [chat[r] EXCEPT
                      !.effects = @ \cup {"store_read"},
                      !.userFetch = IF ~ok THEN "error"
                                    ELSE IF chat[r].user_id \in userDocs
                                         THEN "found" ELSE "absent"]
       IN  IF user_data = PyNone
           THEN chat' = [chat EXCEPT ![r] =
                    [req EXCEPT !.pc = "done", !.resp = ErrorResponse(404)]]
           ELSE chat' = [chat EXCEPT ![r] = [req EXCEPT !.pc = "get_prefs"]]
    /\ UNCHANGED <<userDocs, prefDocs, threadDoc, msgStore, cache, providerUp,
                   remote, fbRet,
                   cacheRet, llm, tasks>>

\* preferences = firebase_service.get_user_preferences(user_id), or the defaults.
ChatGetPreferences(r, ok) ==
    /\ chat[r].pc = "get_prefs"
    /\ LET preferences == get_user_preferences(prefDocs, chat[r].user_id, ok)
       IN  chat' = [chat EXCEPT
                ![r].effects = @ \cup {"store_read"},
                ![r].preferences =
                    IF preferences = PyNone THEN "defaults" ELSE "stored",
                ![r].pc = "cache_get"]
    /\ UNCHANGED <<userDocs, prefDocs, threadDoc, msgStore, cache, providerUp,
                   remote, fbRet,
                   cacheRet, llm, tasks>>

\* The lookup changed to go to the store whatever the cache holds.
ChatCacheGet_always_fetches(r) ==
    /\ chat[r].pc = "cache_get"
    /\ chat' = [chat EXCEPT ![r].effects = @ \cup {"cache_read"},
                            ![r].pc = "fetch"]
    /\ UNCHANGED <<userDocs, prefDocs, threadDoc, msgStore, cache, providerUp,
                   remote, fbRet,
                   cacheRet, llm, tasks>>

\* cached_history = session_cache.get_history(user_id): hit or miss.
ChatCacheGet(r) ==
    /\ chat[r].pc = "cache_get"
    /\ LET cached_history == cache_get_history(cache, chat[r].user_id)
           req == [chat[r] EXCEPT !.effects = @ \cup {"cache_read"}]
       IN  IF cached_history # PyNone
           THEN chat' = [chat EXCEPT ![r] =
                    [req EXCEPT !.cacheHit = TRUE,
                                !.messages = cached_history.turns,
                                !.pc = "call_llm"]]
           ELSE chat' = [chat EXCEPT ![r] = [req EXCEPT !.pc = "fetch"]]
    /\ UNCHANGED <<userDocs, prefDocs, threadDoc, msgStore, cache, providerUp,
                   remote, fbRet,
                   cacheRet, llm, tasks>>

\* messages = firebase_service.get_user_messages(user_id, limit=10)
ChatFetchHistory(r, ok) ==
    /\ chat[r].pc = "fetch"
    /\ chat' = [chat EXCEPT
            ![r].effects = @ \cup {"store_read", "history_fetch"},
            ![r].messages =
                get_user_messages(msgStore[chat[r].user_id], HistoryLimit, ok),
            ![r].pc = "cache_set"]
    /\ UNCHANGED <<userDocs, prefDocs, threadDoc, msgStore, cache, providerUp,
                   remote, fbRet,
                   cacheRet, llm, tasks>>

\* session_cache.update_history(user_id, messages)
ChatCacheSet(r) ==
    /\ chat[r].pc = "cache_set"
    /\ cache' = cache_update_history(cache, chat[r].user_id, chat[r].messages)
    /\ chat' = [chat EXCEPT ![r].effects = @ \cup {"cache_write"},
                            ![r].pc = "call_llm"]
    /\ UNCHANGED <<userDocs, prefDocs, threadDoc, msgStore, providerUp,
                   remote, fbRet,
                   cacheRet, llm, tasks>>

\* The handler changed to save the user's message before it calls the model.
ChatCallLLM_saves_first(r) ==
    /\ chat[r].pc = "call_llm"
    /\ msgStore' = [msgStore EXCEPT ![chat[r].user_id] =
                       Append(@, Turn("user", chat[r].message, Len(@) + 1))]
    /\ chat' = [chat EXCEPT ![r].llmError = "TypeError",
                            ![r].effects = @ \cup {"store_write"},
                            ![r].pc = "done",
                            ![r].resp = ErrorResponse(500)]
    /\ UNCHANGED <<userDocs, prefDocs, threadDoc, cache, providerUp, remote,
                   fbRet,
                   cacheRet, llm, tasks>>

\* The prompt is built and llm_service.get_ai_response(system_prompt=...,
\* conversation_history=..., user_message=...) is called.  The call does not
\* bind (conversation_history is no parameter of get_ai_response), so
\* TypeError is raised before the provider is reached, and the handler's
\* except clause answers 500.  Were the call to bind, it would run with
\* thread_id = None and a system prompt: a new thread, the context message,
\* the user message and a run; the lines of chat() after the call (the saves,
\* the cache appends and the 200 response) are reached by no request.
ChatCallLLM(r) ==
    /\ chat[r].pc = "call_llm"
    /\ IF ~CallBinds(ChatCallKeywords, GetAiResponseParams,
                     GetAiResponseRequired)
       THEN /\ chat' = [chat EXCEPT ![r].llmError = "TypeError",
                                    ![r].pc = "done",
                                    ![r].resp = ErrorResponse(500)]
            /\ UNCHANGED remote
       ELSE IF ~providerUp
       THEN /\ chat' = [chat EXCEPT ![r].llmError = "Exception",
                                    ![r].llmCalls = @ + 1,
                                    ![r].effects = @ \cup {"provider_call"},
                                    ![r].pc = "done",
                                    ![r].resp = ErrorResponse(500)]
            /\ UNCHANGED remote
       ELSE LET current_thread_id == create_thread(remote)
            IN  /\ remote' = [t \in DOMAIN remote \cup {current_thread_id} |->
                                IF t = current_thread_id
                                THEN <<"context", "user", "assistant">>
                                ELSE remote[t]]
                /\ chat' = [chat EXCEPT ![r].llmCalls = @ + 1,
                                        ![r].injected = TRUE,
                                        ![r].effects = @ \cup {"provider_call"},
                                        ![r].pc = "llm_returned"]
    /\ UNCHANGED <<userDocs, prefDocs, threadDoc, msgStore, cache, providerUp,
                   fbRet,
                   cacheRet, llm, tasks>>

----------------------------------------------------------------------------
(* session_cache, called on its own with the arguments chat() passes.      *)

\* Appends stop once a turn would carry a timestamp above MaxTs.
MaxTs == 13

\* The timestamp of the next turn of an entry: later than every turn in it.
NextTs(entry) ==
    IF entry.turns = << >> THEN 1
    ELSE entry.turns[Len(entry.turns)].timestamp + 1

\* The turn chat() appends next for a user: the user's message, then the reply.
NextTurn(entry) ==
    IF entry.turns # << >> /\ entry.turns[Len(entry.turns)].type = "user"
    THEN Turn("ai", "reply", NextTs(entry))
    ELSE Turn("user", "hello", NextTs(entry))

\* session_cache.get_history(user_id)
CacheGetHistory(user_id) ==
    /\ cacheRet' = [op |-> "get_history", user_id |-> user_id,
                    ret |-> cache_get_history(cache, user_id)]
    /\ UNCHANGED <<userDocs, prefDocs, threadDoc, msgStore, cache, providerUp,
                   remote, chat, fbRet, llm, tasks>>

\* session_cache.update_history(user_id, messages) with the messages of
\* firebase_service.get_user_messages(user_id, limit=10)
CacheUpdateHistory(user_id, ok) ==
    /\ cache' = cache_update_history(cache, user_id,
                    get_user_messages(msgStore[user_id], HistoryLimit, ok))
    /\ cacheRet' = [op |-> "update_history", user_id |-> user_id]
    /\ UNCHANGED <<userDocs, prefDocs, threadDoc, msgStore, providerUp,
                   remote, chat, fbRet, llm, tasks>>

\* session_cache.append_message(user_id, {type, message, timestamp})
CacheAppendMessage(user_id) ==
    /\ NextTs(cache[user_id]) <= MaxTs
    /\ cache' = cache_append_message(cache, user_id, NextTurn(cache[user_id]))
    /\ cacheRet' = [op |-> "append_message", user_id |-> user_id,
                    turn |-> NextTurn(cache[user_id])]
    /\ UNCHANGED <<userDocs, prefDocs, threadDoc, msgStore, providerUp,
                   remote, chat, fbRet, llm, tasks>>

----------------------------------------------------------------------------
(* LLMService.get_ai_response, one call at a time.                         *)

\* Calls of get_ai_response a behaviour makes.
MaxLlmCalls == 2

ThreadInputs == {NoneVal, "", "t-1", "t-gone"}
PromptInputs == {NoneVal, "ctx"}

\* run.status values the provider reports.
RunStatuses == {"queued", "in_progress", "completed", "failed", "cancelled",
                "expired"}

\* The provider accepts a call that names the thread.
ProviderAccepts(thread_id) == providerUp /\ thread_id \in DOMAIN remote

\* except Exception as e: ... raise e
LlmRaise == [llm EXCEPT !.pc = "raised", !.ret = "raised"]

\* add_message(thread_id, content): one more message in the provider's thread.
add_message(threads, thread_id, content) ==
    [threads EXCEPT ![thread_id] = Append(@, content)]

\* get_ai_response(user_message, thread_id, system_prompt) is entered.
GetAiResponse(thread_id, system_prompt) ==
    /\ llm.pc \in {"idle", "returned", "raised"}
    /\ llm.calls < MaxLlmCalls
    /\ llm' = [pc |-> "manage_thread", thread_id |-> thread_id,
               system_prompt |-> system_prompt,
               current_thread_id |-> thread_id,
               threadsAtCall |-> DOMAIN remote,
               status |-> NoneVal, ret |-> NoneVal, ret_thread_id |-> NoneVal,
               calls |-> llm.calls + 1]
    /\ UNCHANGED <<userDocs, prefDocs, threadDoc, msgStore, cache, providerUp,
                   remote, chat, fbRet, cacheRet, tasks>>

\* Manage Thread changed to create a thread on every call.
LlmManageThread_always_creates ==
    /\ llm.pc = "manage_thread"
    /\ IF ~providerUp \/ NewThreadIds \subseteq DOMAIN remote
       THEN llm' = LlmRaise /\ UNCHANGED remote
       ELSE LET current_thread_id == create_thread(remote)
            IN  /\ remote' = [t \in DOMAIN remote \cup {current_thread_id} |->
                                IF t = current_thread_id THEN << >>
                                ELSE remote[t]]
                /\ llm' = [llm EXCEPT !.pc = "inject",
                                      !.current_thread_id = current_thread_id]
    /\ UNCHANGED <<userDocs, prefDocs, threadDoc, msgStore, cache, providerUp,
                   chat, fbRet, cacheRet, tasks>>

\* 1. Manage Thread: `if not current_thread_id: ... self.create_thread()`
LlmManageThread ==
    /\ llm.pc = "manage_thread"
    /\ IF ~Falsy(llm.current_thread_id)
       THEN llm' = [llm EXCEPT !.pc = "inject"] /\ UNCHANGED remote
       ELSE IF ~providerUp \/ NewThreadIds \subseteq DOMAIN remote
       THEN llm' = LlmRaise /\ UNCHANGED remote
       ELSE LET current_thread_id == create_thread(remote)
            IN  /\ remote' = [t \in DOMAIN remote \cup {current_thread_id} |->
                                IF t = current_thread_id THEN << >>
                                ELSE remote[t]]
                /\ llm' = [llm EXCEPT !.pc = "inject",
                                      !.current_thread_id = current_thread_id]
    /\ UNCHANGED <<userDocs, prefDocs, threadDoc, msgStore, cache, providerUp,
                   chat, fbRet, cacheRet, tasks>>

\* 2. Inject Context: `if system_prompt: self.add_message(.., context_msg)`
LlmInjectContext ==
    /\ llm.pc = "inject"
    /\ IF Falsy(llm.system_prompt)
       THEN llm' = [llm EXCEPT !.pc = "add_message"] /\ UNCHANGED remote
       ELSE IF ~ProviderAccepts(llm.current_thread_id)
       THEN llm' = LlmRaise /\ UNCHANGED remote
       ELSE /\ remote' = add_message(remote, llm.current_thread_id, "context")
            /\ llm' = [llm EXCEPT !.pc = "add_message"]
    /\ UNCHANGED <<userDocs, prefDocs, threadDoc, msgStore, cache, providerUp,
                   chat, fbRet, cacheRet, tasks>>

\* 3. Add User Message: self.add_message(current_thread_id, user_message)
LlmAddUserMessage ==
    /\ llm.pc = "add_message"
    /\ IF ~ProviderAccepts(llm.current_thread_id)
       THEN llm' = LlmRaise /\ UNCHANGED remote
       ELSE /\ remote' = add_message(remote, llm.current_thread_id, "user")
            /\ llm' = [llm EXCEPT !.pc = "create_run"]
    /\ UNCHANGED <<userDocs, prefDocs, threadDoc, msgStore, cache, providerUp,
                   chat, fbRet, cacheRet, tasks>>

\* 4. Run the Assistant: threads.runs.create(...)
LlmCreateRun ==
    /\ llm.pc = "create_run"
    /\ llm' = IF ProviderAccepts(llm.current_thread_id)
              THEN [llm EXCEPT !.pc = "sleep", !.status = "queued"]
              ELSE LlmRaise
    /\ UNCHANGED <<userDocs, prefDocs, threadDoc, msgStore, cache, providerUp,
                   remote, chat, fbRet, cacheRet, tasks>>

\* The loop changed to leave on "expired" as it does on "completed".
LlmPoll_expired_breaks(run_status) ==
    /\ llm.pc = "poll"
    /\ llm' = IF run_status \in {"completed", "expired"}
              THEN [llm EXCEPT !.pc = "retrieve", !.status = run_status]
              ELSE IF run_status \in {"failed", "cancelled"}
              THEN [LlmRaise EXCEPT !.status = run_status]
              ELSE [llm EXCEPT !.pc = "sleep", !.status = run_status]
    /\ UNCHANGED <<userDocs, prefDocs, threadDoc, msgStore, cache, providerUp,
                   remote, chat, fbRet, cacheRet, tasks>>

\* 5. Poll: the rest of a pass of `while True` after its sleep: the status is
\* read, "completed" leaves the loop, "failed", "cancelled" and "expired"
\* raise, any other status starts the next pass.
LlmPoll(run_status) ==
    /\ llm.pc = "poll"
    /\ llm' = IF run_status = "completed"
              THEN [llm EXCEPT !.pc = "retrieve", !.status = run_status]
              ELSE IF run_status \in {"failed", "cancelled", "expired"}
              THEN [LlmRaise EXCEPT !.status = run_status]
              ELSE [llm EXCEPT !.pc = "sleep", !.status = run_status]
    /\ UNCHANGED <<userDocs, prefDocs, threadDoc, msgStore, cache, providerUp,
                   remote, chat, fbRet, cacheRet, tasks>>

\* time.sleep(1) at the head of each pass of the loop.
LlmSleep ==
    /\ llm.pc = "sleep"
    /\ llm' = [llm EXCEPT !.pc = "poll"]
    /\ UNCHANGED <<userDocs, prefDocs, threadDoc, msgStore, cache, providerUp,
                   remote, chat, fbRet, cacheRet, tasks>>

\* 6. Retrieve Messages: the latest assistant message's text, or the error
\* string when the list holds none, is returned with current_thread_id.
LlmRetrieve(hasAssistantMessage) ==
    /\ llm.pc = "retrieve"
    /\ llm' = [llm EXCEPT !.pc = "returned",
                          !.ret = IF hasAssistantMessage THEN "reply"
                                  ELSE "Error: No response from AI",
                          !.ret_thread_id = llm.current_thread_id]
    /\ UNCHANGED <<userDocs, prefDocs, threadDoc, msgStore, cache, providerUp,
                   remote, chat, fbRet, cacheRet, tasks>>

----------------------------------------------------------------------------
(* FirebaseService thread-record methods, called on their own.             *)

NoCall == [op |-> "none"]

\* Thread ids the model passes to save_thread_id.
SaveInputs == {"t-1", "t-new1"}

SaveThreadId(user_id, thread_id, ok) ==
    /\ threadDoc' = [threadDoc EXCEPT ![user_id] =
                        save_thread_id_doc(threadDoc[user_id], thread_id, ok)]
    /\ fbRet' = [op |-> "save_thread_id", user_id |-> user_id,
                 thread_id |-> thread_id, ret |-> save_thread_id_ret(ok),
                 raised |-> save_thread_id_raised(ok),
                 logged |-> save_thread_id_logged(ok)]
    /\ UNCHANGED <<userDocs, prefDocs, msgStore, cache, providerUp, remote, chat,
                   cacheRet, llm, tasks>>

GetThreadData(user_id, ok) ==
    /\ fbRet' = [op |-> "get_thread_data", user_id |-> user_id,
                 ret |-> get_thread_data(threadDoc[user_id], ok),
                 ok |-> ok,
                 raised |-> get_thread_data_raised(ok),
                 logged |-> get_thread_data_logged(ok)]
    /\ UNCHANGED <<userDocs, prefDocs, threadDoc, msgStore, cache, providerUp,
                   remote, chat,
                   cacheRet, llm, tasks>>

IncrementThreadCount(user_id, ok) ==
    /\ threadDoc[user_id].msg_count < MaxCount
    /\ threadDoc' = [threadDoc EXCEPT ![user_id] =
                        increment_thread_count_doc(threadDoc[user_id], ok)]
    /\ fbRet' = [op |-> "increment_thread_count", user_id |-> user_id,
                 raised |-> increment_thread_count_raised(threadDoc[user_id], ok),
                 logged |-> increment_thread_count_logged(threadDoc[user_id], ok)]
    /\ UNCHANGED <<userDocs, prefDocs, msgStore, cache, providerUp, remote, chat,
                   cacheRet, llm, tasks>>

----------------------------------------------------------------------------
(* Thread-record calls of one user issued together, completing in any      *)
(* order, each applied in one piece.                                       *)

\* Calls issued together.
MaxTasks == 3

\* A call: save_thread_id(user_id, thread_id) or increment_thread_count(user_id).
TaskInputs ==
    {[op |-> "save_thread_id", thread_id |-> t] : t \in SaveInputs}
        \cup {[op |-> "increment_thread_count", thread_id |-> NoneVal]}

\* The document a call leaves when its write goes through.
ApplyTask(doc, task) ==
    IF task.op = "save_thread_id"
    THEN save_thread_id_doc(doc, task.thread_id, TRUE)
    ELSE increment_thread_count_doc(doc, TRUE)

\* A call is issued; all calls are issued before the first one completes.
TaskLaunch(user_id, task) ==
    /\ tasks.done = << >>
    /\ Len(tasks.launched) < MaxTasks
    /\ tasks.launched # << >> => tasks.user_id = user_id
    /\ tasks' = [tasks EXCEPT !.user_id = user_id,
                              !.start = threadDoc[user_id],
                              !.launched = Append(@, task)]
    /\ UNCHANGED <<userDocs, prefDocs, threadDoc, msgStore, cache, providerUp,
                   remote, chat, fbRet, cacheRet, llm>>

\* The i-th issued call completes: its write is applied to the document.
TaskComplete(i) ==
    /\ i \in 1..Len(tasks.launched)
    /\ \A k \in 1..Len(tasks.done) : tasks.done[k] # i
    /\ threadDoc' = [threadDoc EXCEPT ![tasks.user_id] =
                        ApplyTask(@, tasks.launched[i])]
    /\ tasks' = [tasks EXCEPT !.done = Append(@, i)]
    /\ UNCHANGED <<userDocs, prefDocs, msgStore, cache, providerUp, remote,
                   chat, fbRet, cacheRet, llm>>

----------------------------------------------------------------------------
(* Initial states and specifications                                       *)

\* Thread documents a user may have in the store when the process starts.
StoredThreadDocs ==
    {NoDoc} \cup {ThreadRecord("t-1", c) : c \in {0, RefreshPeriod - 1, RefreshPeriod}}
            \cup {ThreadRecord("t-gone", 3)}

Init ==
    /\ userDocs = {"u1"}
    /\ prefDocs \in {{}, {"u1"}}
    /\ \E d \in StoredThreadDocs : threadDoc = [u \in Users |-> IF u = "u1" THEN d ELSE NoDoc]
    /\ \E n \in StoredLogLengths :
           msgStore = [u \in Users |-> IF u = "u1" THEN LogOf(n) ELSE << >>]
    /\ cache = [u \in Users |-> NoEntry]
    /\ providerUp \in BOOLEAN
    /\ remote = [t \in {"t-1", "t-2"} |-> << >>]
    /\ chat = [r \in ReqIds |-> IdleRequest]
    /\ fbRet = NoCall
    /\ cacheRet = NoCacheCall
    /\ llm = IdleCall
    /\ tasks = NoTasks

Next ==
    \/ \E r \in ReqIds, h \in KeyInputs, u \in UserIdInputs, m \in MessageInputs :
           ChatReceive(r, h, u, m)
    \/ \E r \in ReqIds, ok \in BOOLEAN : ChatGetUser(r, ok)
    \/ \E r \in ReqIds, ok \in BOOLEAN : ChatGetPreferences(r, ok)
    \/ \E r \in ReqIds : ChatCacheGet(r)
    \/ \E r \in ReqIds, ok \in BOOLEAN : ChatFetchHistory(r, ok)
    \/ \E r \in ReqIds : ChatCacheSet(r)
    \/ \E r \in ReqIds : ChatCallLLM(r)

Spec == Init /\ [][Next]_vars

NextTracker ==
    \/ \E u \in Users, t \in SaveInputs, ok \in BOOLEAN :
           SaveThreadId(u, t, ok)
    \/ \E u \in Users, ok \in BOOLEAN : GetThreadData(u, ok)
    \/ \E u \in Users, ok \in BOOLEAN : IncrementThreadCount(u, ok)

\* The thread-record methods touch only threadDoc: the rest starts at one value.
InitTracker ==
    /\ userDocs = {"u1"}
    /\ prefDocs = {"u1"}
    /\ \E d \in StoredThreadDocs : threadDoc = [u \in Users |-> IF u = "u1" THEN d ELSE NoDoc]
    /\ msgStore = [u \in Users |-> << >>]
    /\ cache = [u \in Users |-> NoEntry]
    /\ providerUp = TRUE
    /\ remote = [t \in {"t-1", "t-2"} |-> << >>]
    /\ chat = [r \in ReqIds |-> IdleRequest]
    /\ fbRet = NoCall
    /\ cacheRet = NoCacheCall
    /\ llm = IdleCall
    /\ tasks = NoTasks

SpecTracker == InitTracker /\ [][NextTracker]_vars

NextCache ==
    \/ \E u \in Users : CacheGetHistory(u)
    \/ \E u \in Users, ok \in BOOLEAN : CacheUpdateHistory(u, ok)
    \/ \E u \in Users : CacheAppendMessage(u)

\* The cache calls touch only the cache and read only the durable log.
InitCache ==
    /\ userDocs = {"u1"}
    /\ prefDocs = {"u1"}
    /\ threadDoc = [u \in Users |-> NoDoc]
    /\ \E n \in StoredLogLengths :
           msgStore = [u \in Users |-> IF u = "u1" THEN LogOf(n) ELSE << >>]
    /\ cache = [u \in Users |-> NoEntry]
    /\ providerUp = TRUE
    /\ remote = [t \in {"t-1", "t-2"} |-> << >>]
    /\ chat = [r \in ReqIds |-> IdleRequest]
    /\ fbRet = NoCall
    /\ cacheRet = NoCacheCall
    /\ llm = IdleCall
    /\ tasks = NoTasks

SpecCache == InitCache /\ [][NextCache]_vars

NextTasks ==
    \/ \E u \in Users, t \in TaskInputs : TaskLaunch(u, t)
    \/ \E i \in 1..MaxTasks : TaskComplete(i)

SpecTasks == InitTracker /\ [][NextTasks]_vars

NextLLM ==
    \/ \E t \in ThreadInputs, p \in PromptInputs : GetAiResponse(t, p)
    \/ LlmManageThread
    \/ LlmInjectContext
    \/ LlmAddUserMessage
    \/ LlmCreateRun
    \/ \E run_status \in RunStatuses : LlmPoll(run_status)
    \/ LlmSleep
    \/ \E b \in BOOLEAN : LlmRetrieve(b)

\* get_ai_response touches only the provider's threads.
InitLLM ==
    /\ userDocs = {"u1"}
    /\ prefDocs = {"u1"}
    /\ threadDoc = [u \in Users |-> NoDoc]
    /\ msgStore = [u \in Users |-> << >>]
    /\ cache = [u \in Users |-> NoEntry]
    /\ providerUp \in BOOLEAN
    /\ remote = [t \in {"t-1", "t-2"} |-> << >>]
    /\ chat = [r \in ReqIds |-> IdleRequest]
    /\ fbRet = NoCall
    /\ cacheRet = NoCacheCall
    /\ llm = IdleCall
    /\ tasks = NoTasks

SpecLLM == InitLLM /\ [][NextLLM]_vars

\* The thread that runs get_ai_response keeps running: a call that can take a
\* step takes one.  Nothing obliges the provider to finish a run.
SpecLLMFair == SpecLLM /\ WF_vars(NextLLM)

----------------------------------------------------------------------------
(* Properties                                                              *)

\* The request of slot r has been answered.
Answered(r) == chat[r].pc = "done"

\* The request of slot r is one the handler must serve: the key is valid, both
\* fields are given and the profile was found.
Servable(r) == Answered(r) /\ chat[r].userFetch = "found"

\* The context-injection policy on a thread document.
InjectionRequired(doc) ==
    \/ ~doc.exists
    \/ doc.thread_id = NoneVal
    \/ doc.msg_count > 0 /\ doc.msg_count % RefreshPeriod = 0

\* C1: for every thread record {threadId, turnCount} of the user, a served chat
\* request injects system context into the provider call if and only if
\* threadId is absent, or turnCount > 0 and turnCount mod 50 = 0.
\* (threadDoc does not change under Spec: it is the record as the request
\* found it.)
C1_InjectionFollowsPolicy ==
    \A r \in ReqIds :
        Servable(r) =>
            (chat[r].injected <=> InjectionRequired(threadDoc[chat[r].user_id]))

\* C2: the first chat request of a user with no thread record, with the
\* provider answering, injects context: a new remote thread exists whose first
\* two messages are the system-context message and then the user message.
C2_FirstTurnInjects ==
    \A r \in ReqIds :
        (Servable(r) /\ providerUp /\ ~threadDoc[chat[r].user_id].exists) =>
            /\ chat[r].injected
            /\ \E t \in DOMAIN remote \cap NewThreadIds :
                   /\ Len(remote[t]) >= 2
                   /\ SubSeq(remote[t], 1, 2) = <<"context", "user">>

\* C3: when the thread the user's record refers to is not a thread of the
\* provider (so that the call on it fails as an invalid thread), the request
\* makes exactly two provider calls, the failed one and one retry on a new
\* thread, and with the provider answering it ends in success.
C3_RetriesOnceOnInvalidThread ==
    \A r \in ReqIds :
        (/\ Servable(r)
         /\ providerUp
         /\ threadDoc[chat[r].user_id].exists
         /\ threadDoc[chat[r].user_id].thread_id \notin DOMAIN remote) =>
            /\ chat[r].llmCalls = 2
            /\ chat[r].resp.status = 200

\* C5: a served request whose provider answers performs a thread-record
\* mutation (recordNewThread or incrementTurnCount), never neither.
C5_OneTrackerMutation ==
    \A r \in ReqIds :
        (Servable(r) /\ providerUp) =>
            "thread_record_write" \in chat[r].effects

C7_ReturnsZeroRecord ==
    (fbRet.op = "get_thread_data" /\ ~threadDoc[fbRet.user_id].exists) =>
        fbRet.ret = [kind |-> "dict", thread_id |-> NoneVal, msg_count |-> 0]

\* C7 amended: get_thread_data for a user without a thread document returns
\* None, and does not raise.
C7_ReturnsNone ==
    (fbRet.op = "get_thread_data" /\ ~threadDoc[fbRet.user_id].exists) =>
        fbRet.ret = PyNone

\* get_thread_data has just read a missing document, the store answering.
C7_Witness ==
    /\ fbRet.op = "get_thread_data"
    /\ fbRet.ok
    /\ ~threadDoc[fbRet.user_id].exists
    /\ fbRet.ret = PyNone

\* C8: a request whose user_id or message is empty or missing is answered 400
\* (401 when the API key is bad) having read and written nothing: no store
\* access, no cache access, no provider call.
C8_EmptyInputRejected ==
    \A r \in ReqIds :
        (/\ chat[r].pc # "idle"
         /\ \/ chat[r].user_id \in {NoneVal, ""}
            \/ chat[r].message \in {NoneVal, ""}) =>
            /\ chat[r].pc = "done"
            /\ chat[r].resp.status = IF chat[r].api_key = API_KEY
                                     THEN 400 ELSE 401
            /\ chat[r].effects = {}
            /\ chat[r].llmCalls = 0

\* A request with an empty user_id and a message has been answered 400.
C8_Witness ==
    \E r \in ReqIds :
        /\ chat[r].pc = "done"
        /\ chat[r].api_key = API_KEY
        /\ chat[r].user_id = ""
        /\ chat[r].message = "hello"
        /\ chat[r].resp.status = 400

\* C9: a request that fetched the profile is answered 404 exactly when the
\* profile is absent; when the fetch itself failed the answer is a 5xx.
C9_NotFoundOnlyWhenAbsent ==
    \A r \in ReqIds :
        (Answered(r) /\ chat[r].userFetch # "none") =>
            /\ chat[r].resp.status = 404 <=> chat[r].userFetch = "absent"
            /\ chat[r].userFetch = "error" => chat[r].resp.status >= 500

\* C10: a request with both fields, an existing user and the provider
\* answering gets a 200 response that carries the assistant's text and the
\* thread id.
C10_SuccessCarriesTextAndThread ==
    \A r \in ReqIds :
        (Servable(r) /\ providerUp) =>
            /\ chat[r].resp.status = 200
            /\ {"message", "thread_id"} \subseteq chat[r].resp.keys

\* The request of slot r is the only one being served.
Alone(r) == \A q \in ReqIds \ {r} : chat[q].pc = "idle"

\* No turn of the list carries the text.
NoTurnWith(turns, text) == \A i \in DOMAIN turns : turns[i].message # text

\* C11: a request that failed because its call of the model failed has
\* persisted nothing: the answer is the 500, no turn with its message is in the
\* user's durable log or cache entry, and the thread record is as it was.
C11_NoPartialPersistence ==
    \A r \in ReqIds :
        (Answered(r) /\ chat[r].llmError # NoneVal) =>
            /\ chat[r].resp.status = 500
            /\ NoTurnWith(msgStore[chat[r].user_id], chat[r].message)
            /\ NoTurnWith(cache[chat[r].user_id].turns, chat[r].message)
            /\ threadDoc[chat[r].user_id] = chat[r].recordAtStart
            /\ chat[r].effects \cap {"store_write", "thread_record_write"} = {}

\* A request failed at the call of the model after its history was cached.
C11_Witness ==
    \E r \in ReqIds :
        /\ Answered(r)
        /\ chat[r].llmError = "TypeError"
        /\ chat[r].resp.status = 500
        /\ cache[chat[r].user_id].present
        /\ Len(cache[chat[r].user_id].turns) > 0

\* C13: a request whose lookup hit the cache never fetches the history from
\* the store; a lookup made while the user has an entry is a hit; and once a
\* miss has been served the user has an entry.
C13_ReadThrough ==
    [][\A r \in ReqIds :
          /\ chat'[r].cacheHit => "history_fetch" \notin chat'[r].effects
          /\ (/\ chat[r].pc = "cache_get"
              /\ chat'[r].pc # "cache_get"
              /\ cache[chat[r].user_id].present) =>
                 (chat'[r].cacheHit /\ chat'[r].pc = "call_llm")
          /\ (chat[r].pc = "cache_set" /\ chat'[r].pc # "cache_set") =>
                 cache'[chat[r].user_id].present]_vars

\* One request missed and fetched from the store, a second one of the same
\* user hit the cache and fetched nothing.
C13_Witness ==
    \E r1, r2 \in ReqIds :
        /\ r1 # r2
        /\ chat[r1].user_id = chat[r2].user_id
        /\ "history_fetch" \in chat[r1].effects
        /\ chat[r1].pc \in {"call_llm", "done"}
        /\ chat[r2].cacheHit
        /\ "history_fetch" \notin chat[r2].effects

\* C14: no user has a cache entry that holds no turns (a miss whose fetch
\* yielded nothing is not cached, so the next lookup misses again).
C14_NoNegativeCaching ==
    \A u \in Users : cache[u].present => cache[u].turns # << >>

\* s is the last Len(s) elements of t.
IsSuffix(s, t) ==
    /\ Len(s) <= Len(t)
    /\ s = SubSeq(t, Len(t) - Len(s) + 1, Len(t))

\* C15: append_message for a user with no entry leaves the cache as it is, a
\* get_history for a user with no entry returns None, and an entry comes into
\* being only by update_history.
C15_AppendOnAbsentIsNoOp ==
    [][/\ \A u \in Users :
             (/\ cacheRet'.op = "append_message"
              /\ cacheRet'.user_id = u
              /\ ~cache[u].present) => cache' = cache
       /\ \A u \in Users :
             (~cache[u].present /\ cache'[u].present) =>
                 (cacheRet'.op = "update_history" /\ cacheRet'.user_id = u)
       /\ (cacheRet'.op = "get_history" /\ ~cache[cacheRet'.user_id].present) =>
             cacheRet'.ret = PyNone]_vars

\* A turn was appended for a user who has no entry, while another user has one.
C15_Witness ==
    /\ cacheRet.op = "append_message"
    /\ ~cache[cacheRet.user_id].present
    /\ \E u \in Users : cache[u].present

\* C16: every entry has at most CacheBound turns, and an append to an entry
\* puts the turn last, keeps the turns before it in order and drops only from
\* the front: the entry is the last CacheBound turns of the old entry plus the
\* new turn.
C16_BoundedFifo ==
    [][\A u \in Users :
          /\ Len(cache'[u].turns) <= CacheBound
          /\ (/\ cacheRet'.op = "append_message"
              /\ cacheRet'.user_id = u
              /\ cache[u].present) =>
                LET old == cache[u].turns
                    new == cache'[u].turns
                IN  /\ Len(new) = IF Len(old) < CacheBound THEN Len(old) + 1
                                  ELSE CacheBound
                    /\ new[Len(new)] = cacheRet'.turn
                    /\ IsSuffix(SubSeq(new, 1, Len(new) - 1), old)]_vars

\* An entry holds CacheBound turns of which the oldest stored ones were dropped
\* by appends.
C16_Witness ==
    \E u \in Users :
        /\ cache[u].present
        /\ Len(cache[u].turns) = CacheBound
        /\ cache[u].turns[1].timestamp > 2
        /\ cache[u].turns[CacheBound].message \in {"hello", "reply"}
        /\ cacheRet.op = "append_message"

\* C17: a call of get_ai_response that polls a run ends: it returns or raises.
C17_PollLoopEnds ==
    (llm.pc = "poll") ~> (llm.pc \in {"returned", "raised"})

\* C18: a request served alone for a user whose thread record was
\* {t-1, 49} injects context and leaves the record at {t-1, 50}.
C18_From49To50 ==
    \A r \in ReqIds :
        (/\ Servable(r) /\ Alone(r) /\ providerUp
         /\ chat[r].recordAtStart = ThreadRecord("t-1", 49)) =>
            /\ chat[r].injected
            /\ threadDoc[chat[r].user_id] = ThreadRecord("t-1", 50)

\* C19: a request served alone for a user who had no thread record leaves a
\* record with the new thread's id and count 0, or 1 once its persistence ran.
C19_FirstTurnCreatesRecord ==
    \A r \in ReqIds :
        (/\ Servable(r) /\ Alone(r) /\ providerUp
         /\ ~chat[r].recordAtStart.exists) =>
            /\ threadDoc[chat[r].user_id].exists
            /\ threadDoc[chat[r].user_id].thread_id \in NewThreadIds
            /\ threadDoc[chat[r].user_id].msg_count \in {0, 1}

RECURSIVE ApplyAll(_, _)
ApplyAll(doc, list) ==
    IF list = << >> THEN doc
    ELSE ApplyAll(ApplyTask(doc, list[1]), SubSeq(list, 2, Len(list)))

\* C21: once all calls issued together for a user have completed, the thread
\* record is the one their completion in the order of issue gives: the record
\* is the same for every completion order.
C21_SameForEveryOrder ==
    (tasks.launched # << >> /\ Len(tasks.done) = Len(tasks.launched)) =>
        threadDoc[tasks.user_id] = ApplyAll(tasks.start, tasks.launched)

C23_EveryErrorLogged ==
    (fbRet.op # "none" /\ fbRet.raised) => fbRet.logged

\* C24: a call that returned gives back the thread id it was passed, or, when
\* it was passed none, the id of a thread that did not exist before the call;
\* so the returned id differs from the passed one exactly when none was passed.
C24_ReturnedThreadId ==
    llm.pc = "returned" =>
        /\ ~Falsy(llm.thread_id) => llm.ret_thread_id = llm.thread_id
        /\ Falsy(llm.thread_id) =>
              /\ ~Falsy(llm.ret_thread_id)
              /\ llm.ret_thread_id \notin llm.threadsAtCall
              /\ llm.ret_thread_id \in DOMAIN remote
        /\ (llm.ret_thread_id # llm.thread_id) <=> Falsy(llm.thread_id)

\* A second call passed no thread returned a second new thread.
C24_Witness ==
    /\ llm.pc = "returned"
    /\ llm.thread_id = NoneVal
    /\ llm.ret_thread_id = "t-new2"
    /\ "t-new1" \in llm.threadsAtCall

\* C25: once two requests of one user have both been served, the user's cache
\* entry holds the user turn of each of them, each followed by an assistant
\* turn.
C25_BothExchangesCached ==
    \A r1, r2 \in ReqIds :
        (/\ r1 # r2
         /\ Servable(r1) /\ Servable(r2)
         /\ chat[r1].user_id = chat[r2].user_id
         /\ providerUp) =>
            LET turns == cache[chat[r1].user_id].turns
                asked == {i \in DOMAIN turns :
                             /\ turns[i].type = "user"
                             /\ turns[i].message \in
                                    {chat[r1].message, chat[r2].message}}
            IN  /\ Cardinality(asked) = 2
                /\ \A i \in asked :
                      \E j \in DOMAIN turns : j > i /\ turns[j].type = "ai"

============================================================================
